---- MODULE Spec2Model ----
(***************************************************************************)
(* robowflex: the motion request builder, the OMPL pipeline planner, the   *)
(* linear multi-goal planning loop of TMPackInterface and the HDF5 tree    *)
(* loader.  Floating-point values are modelled by their decimal literals   *)
(* (strings): only equality of values matters to the properties below.    *)
(***************************************************************************)
EXTENDS Integers, Sequences, FiniteSets, TLC

VARIABLES
    \* MotionRequestBuilder
    request,        \* request_ (planning_interface::MotionPlanRequest)
    bOp,            \* ghost: name of the last builder operation
    bPrev,          \* ghost: request_ before the last builder operation
    bGoalCalls,     \* ghost: has setGoalConfiguration / setGoalRegion been called
    bLastGoal,      \* ghost: constraint built by the most recent such call
    \* PipelinePlanner / OMPLPipelinePlanner
    pipeline_,      \* <<>> is the null pointer, <<p>> a constructed pipeline
    configs_,       \* planner configuration names
    handler_,       \* parameters set through the IO::Handler
    pOp,            \* ghost: the last planner operation with its inputs and result
    pPrev,          \* ghost: <<pipeline_, configs_, handler_>> before the last operation
    pInitOk,        \* ghost: an initialize call has returned true
    pGenerated,     \* ghost: number of pipeline_->generatePlan calls
    pOps,           \* ghost: number of planner operations performed
    \* TMPackInterface::plan_linearly
    robot,          \* Robot state vector (all variables of the model)
    pc,             \* position in plan_linearly
    goals,          \* the task plan
    idx,            \* 1-based index of the goal of the current iteration
    responses,      \* the result list
    next_start_joint_positions,
    log,            \* ghost: callbacks and planner calls in the order they happened
    returned,       \* ghost: the values returned by the planner.plan calls, in order
    requestAtEntry, \* ghost: the request when plan_linearly was called
    robotAtEntry,   \* ghost: robot state when plan_linearly was called
    robotTouched,   \* ghost: a callback changed the robot state
    robotBefore,    \* ghost: robot state just before each extraction (line 85), in order
    handed,         \* ghost: vectors passed to setStartConfiguration, in order
    seeds,          \* ghost: vectors passed to the constraint helper, in order
    \* IO::HDF5File
    h5pc,           \* "new" | "loaded" | "failed"
    container,      \* the source file: path -> object
    data_,          \* the node tree: path -> node
    h5ub            \* ghost: outcome chosen for each read of an unsupported dataset

builderVars == <<request, bOp, bPrev, bGoalCalls, bLastGoal>>
plannerVars == <<pipeline_, configs_, handler_, pOp, pPrev, pInitOk, pGenerated, pOps>>
tmpVars == <<robot, pc, goals, idx, responses, next_start_joint_positions, log,
             returned, requestAtEntry, robotAtEntry, robotTouched, robotBefore, handed, seeds>>
h5Vars == <<h5pc, container, data_, h5ub>>
vars == <<builderVars, plannerVars, tmpVars, h5Vars>>

----------------------------------------------------------------------------
(* Bounds *)

MaxPlannerOps == 3
MaxGoals == 2
MaxObjs == 4
MaxDepth == 2

----------------------------------------------------------------------------
(* The robot model: a 7-variable floating virtual joint followed by the     *)
(* single-variable joints.                                                  *)

VirtualVariables == <<"trans_x", "trans_y", "trans_z", "rot_x", "rot_y", "rot_z", "rot_w">>

JointVariables == <<"j1", "j2">>

VariableNames == VirtualVariables \o JointVariables

VariableCount == Len(VariableNames)

VirtualCount == Len(VirtualVariables)

\* joint model groups of the robot: the variable indices of each group, in group order
JointModelGroups ==
    [body |-> [k \in 1..VariableCount |-> k],
     arm  |-> [k \in 1..Len(JointVariables) |-> VirtualCount + k]]

GroupNames == {"body", "arm"}

\* RobotState::setToDefaultValues: identity pose of the floating joint, zero joints
DefaultValues ==
    <<"0", "0", "0", "0", "0", "0", "1">> \o [k \in 1..Len(JointVariables) |-> "0"]

\* RobotState::setJointGroupPositions(jmg, joints): the k-th variable of the group
\* takes joints[k]; entries of joints past the group's variable count are not read
SetJointGroupPositions(state, jmg, joints) ==
    [v \in 1..VariableCount |->
        IF \E k \in 1..Len(jmg) : jmg[k] = v
        THEN joints[CHOOSE k \in 1..Len(jmg) : jmg[k] = v]
        ELSE state[v]]

\* moveit::core::robotStateToRobotStateMsg: single-variable joints go to joint_state,
\* the floating joint to multi_dof_joint_state
RobotStateToRobotStateMsg(state) ==
    [joint_state |-> [name |-> JointVariables,
                      position |-> SubSeq(state, VirtualCount + 1, VariableCount)],
     multi_dof_joint_state |-> SubSeq(state, 1, VirtualCount)]

\* a default-constructed moveit_msgs::RobotState
EmptyRobotStateMsg ==
    [joint_state |-> [name |-> <<>>, position |-> <<>>], multi_dof_joint_state |-> <<>>]

----------------------------------------------------------------------------
(* MotionRequestBuilder *)

DEFAULT_CONFIG == "RRTConnect"

\* s.find(DEFAULT_CONFIG) != npos over the configuration names used here
ContainsDefaultConfig(s) == s \in {"RRTConnectkConfigDefault", "arm[RRTConnectkConfigDefault]"}

RECURSIVE FindIfDefaultConfig(_)
FindIfDefaultConfig(configs) ==
    IF configs = <<>> THEN <<>>
    ELSE IF ContainsDefaultConfig(Head(configs)) THEN <<Head(configs)>>
    ELSE FindIfDefaultConfig(Tail(configs))

DefaultWorkspace == [min_corner |-> "-1", max_corner |-> "1"]

MotionRequestBuilder(configs, group_name) ==
    [group_name |-> group_name,
     workspace_parameters |-> DefaultWorkspace,
     allowed_planning_time |-> "5.0",
     planner_id |-> IF FindIfDefaultConfig(configs) # <<>>
                    THEN FindIfDefaultConfig(configs)[1] ELSE "",
     start_state |-> EmptyRobotStateMsg,
     goal_constraints |-> <<>>]

jmg_(req) == JointModelGroups[req.group_name]

setWorkspaceBounds(req, wp) == [req EXCEPT !.workspace_parameters = wp]

setStartConfiguration(req, joints) ==
    [req EXCEPT !.start_state =
        RobotStateToRobotStateMsg(SetJointGroupPositions(DefaultValues, jmg_(req), joints))]

\* kinematic_constraints::constructGoalConstraints(goal_state, jmg): one joint
\* constraint per variable of the group, at the goal state's position
ConstructGoalConstraints(joints, jmg) ==
    [joint_constraints |-> [k \in 1..Len(jmg) |->
                               [joint_name |-> VariableNames[jmg[k]], position |-> joints[k]]],
     position_constraints |-> <<>>,
     orientation_constraints |-> <<>>]

setGoalConfiguration_keeps(req, joints) ==
    [req EXCEPT !.goal_constraints =
        Append(req.goal_constraints, ConstructGoalConstraints(joints, jmg_(req)))]

setGoalConfiguration(req, joints) ==
    [req EXCEPT !.goal_constraints = <<ConstructGoalConstraints(joints, jmg_(req))>>]

RegionConstraints(region) ==
    [joint_constraints |-> <<>>,
     position_constraints |-> <<[link_name |-> region.ee_name, frame_id |-> region.base_name,
                                 pose |-> region.pose, geometry |-> region.geometry]>>,
     orientation_constraints |-> <<[link_name |-> region.ee_name, frame_id |-> region.base_name,
                                    orientation |-> region.orientation,
                                    tolerances |-> region.tolerances]>>]

setGoalRegion(req, region) ==
    [req EXCEPT !.goal_constraints = <<RegionConstraints(region)>>]

getRequest(req) == req

----------------------------------------------------------------------------
(* Input domains *)

Doubles == {"0", "0.5"}

\* the hard-coded virtual-link values of plan_linearly (r2_start.yml)
tmp == <<"1.98552", "0.0242871", "9.14127e-05", "4.8366e-06", "-2.4964e-06", "1", "-6.53607e-07">>

\* poses of the floating virtual joint: the hard-coded one and the identity
BasePoses == {tmp, <<"0", "0", "0", "0", "0", "0", "1">>}

JointConfigurations == [1..Len(JointVariables) -> Doubles]

FullConfigurations == {b \o j : b \in BasePoses, j \in JointConfigurations}

\* the configurations of one joint model group
GroupConfigurations(g) ==
    {[k \in 1..Len(JointModelGroups[g]) |-> c[JointModelGroups[g][k]]] : c \in FullConfigurations}

WorkspaceInputs == {DefaultWorkspace, [min_corner |-> "-2", max_corner |-> "2"]}

RegionInputs ==
    {[ee_name |-> "gripper", base_name |-> "world", pose |-> p, geometry |-> "sphere",
      orientation |-> "identity", tolerances |-> "0.01"] : p \in {"poseA", "poseB"}}

ConfigLists ==
    {<<>>, <<"PRMkConfigDefault">>, <<"PRMkConfigDefault", "RRTConnectkConfigDefault">>}

----------------------------------------------------------------------------
(* Idle values of each component, for the specifications that do not use it *)

BuilderIdle ==
    /\ request = MotionRequestBuilder(<<>>, "body")
    /\ bOp = "new" /\ bPrev = request /\ bGoalCalls = FALSE /\ bLastGoal = <<>>

PlannerIdle ==
    /\ pipeline_ = <<>> /\ configs_ = <<>>
    /\ handler_ = [yaml |-> "", planning_plugin |-> "", request_adapters |-> <<>>, ompl |-> ""]
    /\ pOp = [op |-> "new"] /\ pPrev = <<pipeline_, configs_, handler_>>
    /\ pInitOk = FALSE /\ pGenerated = 0 /\ pOps = 0

TmpIdle ==
    /\ robot = DefaultValues /\ pc = "idle" /\ goals = <<>> /\ idx = 0
    /\ responses = <<>> /\ next_start_joint_positions = <<>> /\ log = <<>>
    /\ returned = <<>> /\ requestAtEntry = request
    /\ robotAtEntry = robot /\ robotTouched = FALSE
    /\ robotBefore = <<>> /\ handed = <<>> /\ seeds = <<>>

H5Idle ==
    /\ h5pc = "idle" /\ container = <<>> /\ data_ = <<>> /\ h5ub = <<>>

----------------------------------------------------------------------------
(* Specification of the request builder: any sequence of its operations *)

InitBuilder ==
    /\ \E configs \in ConfigLists, g \in GroupNames :
          request = MotionRequestBuilder(configs, g)
    /\ bOp = "new" /\ bPrev = request /\ bGoalCalls = FALSE /\ bLastGoal = <<>>
    /\ PlannerIdle /\ TmpIdle /\ H5Idle

SetWorkspaceBounds ==
    /\ \E wp \in WorkspaceInputs : request' = setWorkspaceBounds(request, wp)
    /\ bOp' = "setWorkspaceBounds" /\ bPrev' = request
    /\ UNCHANGED <<bGoalCalls, bLastGoal, plannerVars, tmpVars, h5Vars>>

SetStartConfiguration ==
    /\ \E joints \in GroupConfigurations(request.group_name) :
          request' = setStartConfiguration(request, joints)
    /\ bOp' = "setStartConfiguration" /\ bPrev' = request
    /\ UNCHANGED <<bGoalCalls, bLastGoal, plannerVars, tmpVars, h5Vars>>

SetGoalConfiguration ==
    /\ \E joints \in GroupConfigurations(request.group_name) :
          /\ request' = setGoalConfiguration(request, joints)
          /\ bLastGoal' = [kind |-> "configuration", joints |-> joints]
    /\ bOp' = "setGoalConfiguration" /\ bPrev' = request /\ bGoalCalls' = TRUE
    /\ UNCHANGED <<plannerVars, tmpVars, h5Vars>>

SetGoalRegion ==
    /\ \E region \in RegionInputs :
          /\ request' = setGoalRegion(request, region)
          /\ bLastGoal' = [kind |-> "region", region |-> region]
    /\ bOp' = "setGoalRegion" /\ bPrev' = request /\ bGoalCalls' = TRUE
    /\ UNCHANGED <<plannerVars, tmpVars, h5Vars>>

NextBuilder ==
    \/ SetWorkspaceBounds
    \/ SetStartConfiguration
    \/ SetGoalConfiguration
    \/ SetGoalRegion

SpecBuilder == InitBuilder /\ [][NextBuilder]_vars

\* the goal constraint the most recent goal-setting call asked for
ExpectedGoal(last, req) ==
    IF last.kind = "configuration"
    THEN [joint_constraints |->
              [k \in 1..Len(jmg_(req)) |->
                  [joint_name |-> VariableNames[jmg_(req)[k]], position |-> last.joints[k]]],
          position_constraints |-> <<>>, orientation_constraints |-> <<>>]
    ELSE [joint_constraints |-> <<>>,
          position_constraints |-> <<[link_name |-> last.region.ee_name,
                                      frame_id |-> last.region.base_name,
                                      pose |-> last.region.pose,
                                      geometry |-> last.region.geometry]>>,
          orientation_constraints |-> <<[link_name |-> last.region.ee_name,
                                         frame_id |-> last.region.base_name,
                                         orientation |-> last.region.orientation,
                                         tolerances |-> last.region.tolerances]>>]

\* C9: after any sequence of builder operations the request holds exactly one goal
\* constraint, that of the most recent setGoalConfiguration / setGoalRegion call, if
\* one was made, and none otherwise; the goal setters leave the start state and the
\* workspace bounds unchanged, and setStartConfiguration / setWorkspaceBounds leave
\* the goal constraints unchanged.
C9_GoalConstraints ==
    /\ bGoalCalls => /\ Len(request.goal_constraints) = 1
                     /\ request.goal_constraints[1] = ExpectedGoal(bLastGoal, request)
    /\ ~bGoalCalls => request.goal_constraints = <<>>
    /\ bOp \in {"setGoalConfiguration", "setGoalRegion"} =>
          /\ request.start_state = bPrev.start_state
          /\ request.workspace_parameters = bPrev.workspace_parameters
    /\ bOp \in {"setStartConfiguration", "setWorkspaceBounds"} =>
          request.goal_constraints = bPrev.goal_constraints

\* a goal set twice (region after configuration), then the start state changed
C9_Witness ==
    /\ bOp = "setStartConfiguration"
    /\ bGoalCalls /\ bLastGoal.kind = "region"
    /\ bPrev.start_state # request.start_state
    /\ bPrev.start_state # EmptyRobotStateMsg
    /\ request.workspace_parameters # DefaultWorkspace

----------------------------------------------------------------------------
(* PipelinePlanner and OMPL::OMPLPipelinePlanner *)

DEFAULT_ADAPTERS ==
    <<"default_planner_request_adapters/AddTimeParameterization",
      "default_planner_request_adapters/FixWorkspaceBounds",
      "default_planner_request_adapters/FixStartStateBounds",
      "default_planner_request_adapters/FixStartStateCollision",
      "default_planner_request_adapters/FixStartStatePathConstraints">>

\* the files initialize is called with: IO::loadFileToYAML gives (loaded, document);
\* a document may or may not have a planner_configs map
LoadFileToYAML(config_file) ==
    CASE config_file = "ompl_planning.yml" ->
            [first |-> TRUE,
             second |-> [name |-> config_file,
                         planner_configs |-> <<"PRMkConfigDefault", "RRTConnectkConfigDefault">>]]
      [] config_file = "no_configs.yml" ->
            [first |-> TRUE, second |-> [name |-> config_file, planner_configs |-> <<>>]]
      [] OTHER -> [first |-> FALSE, second |-> [name |-> "", planner_configs |-> <<>>]]

ConfigFiles == {"", "missing.yml", "ompl_planning.yml", "no_configs.yml"}

loadOMPLConfig_eager(handler, config_file, configs) ==
    LET config == LoadFileToYAML(config_file) IN
    [ret |-> config_file # "" /\ config.first,
     handler |-> [handler EXCEPT !.yaml = config_file],
     configs |-> configs \o <<config_file>>]

loadOMPLConfig(handler, config_file, configs) ==
    IF config_file = ""
    THEN [ret |-> FALSE, handler |-> handler, configs |-> configs]
    ELSE LET config == LoadFileToYAML(config_file) IN
         IF ~config.first
         THEN [ret |-> FALSE, handler |-> handler, configs |-> configs]
         ELSE [ret |-> TRUE,
               handler |-> [handler EXCEPT !.yaml = config.second.name],
               configs |-> configs \o config.second.planner_configs]

\* the adapters joined by single spaces, as the token sequence written to the stream
RECURSIVE JoinAdapters(_, _)
JoinAdapters(adapters, i) ==
    IF i > Len(adapters) THEN <<>>
    ELSE <<adapters[i]>> \o (IF i < Len(adapters) THEN <<" ">> ELSE <<>>)
         \o JoinAdapters(adapters, i + 1)

initialize(pl, config_file, settings, plugin, adapters) ==
    LET loaded == loadOMPLConfig(pl.handler_, config_file, pl.configs_) IN
    IF ~loaded.ret
    THEN [ret |-> FALSE, pipeline_ |-> pl.pipeline_, configs_ |-> loaded.configs,
          handler_ |-> loaded.handler]
    ELSE [ret |-> TRUE,
          pipeline_ |-> <<[planning_plugin |-> "planning_plugin",
                           request_adapters |-> "request_adapters"]>>,
          configs_ |-> loaded.configs,
          handler_ |-> [loaded.handler EXCEPT !.planning_plugin = plugin,
                                              !.request_adapters = JoinAdapters(adapters, 1),
                                              !.ompl = settings]]

\* moveit_msgs::MoveItErrorCodes
SUCCESS == 1
FAILURE == 99999

\* a default-constructed planning_interface::MotionPlanResponse
DefaultResponse == [error_code_ |-> 0, trajectory_ |-> <<>>]

\* what the external pipeline's generatePlan may write into the response: a
\* trajectory ending in some waypoint with either status, or a failure without one
ExternalResponses ==
    {[error_code_ |-> e, trajectory_ |-> <<w>>] : e \in {SUCCESS, FAILURE}, w \in FullConfigurations}
    \cup {[error_code_ |-> FAILURE, trajectory_ |-> <<>>]}

PipelinePlanner_plan_unguarded(pipeline, generated) ==
    [response |-> generated, invoked |-> TRUE]

\* PipelinePlanner::plan; generated is what generatePlan writes if it is called
PipelinePlanner_plan(pipeline, generated) ==
    IF pipeline # <<>>
    THEN [response |-> generated, invoked |-> TRUE]
    ELSE [response |-> DefaultResponse, invoked |-> FALSE]

getPlannerConfigs(configs) == configs

----------------------------------------------------------------------------
(* Specification of the planner: any sequence of initialize and plan calls *)

SettingsInputs == {"default", "custom"}

AdapterInputs == {DEFAULT_ADAPTERS, <<>>, <<"default_planner_request_adapters/FixWorkspaceBounds">>}

InitPlanner == PlannerIdle /\ BuilderIdle /\ TmpIdle /\ H5Idle

Initialize ==
    /\ pOps < MaxPlannerOps
    /\ \E config_file \in ConfigFiles, settings \in SettingsInputs, adapters \in AdapterInputs :
          LET r == initialize([pipeline_ |-> pipeline_, configs_ |-> configs_,
                               handler_ |-> handler_],
                              config_file, settings, "ompl_interface/OMPLPlanner", adapters) IN
          /\ pipeline_' = r.pipeline_
          /\ configs_' = r.configs_
          /\ handler_' = r.handler_
          /\ pOp' = [op |-> "initialize", config_file |-> config_file, ret |-> r.ret,
                     invoked |-> FALSE, response |-> DefaultResponse]
          /\ pInitOk' = (pInitOk \/ r.ret)
    /\ pPrev' = <<pipeline_, configs_, handler_>>
    /\ pOps' = pOps + 1
    /\ UNCHANGED <<pGenerated, builderVars, tmpVars, h5Vars>>

Plan ==
    /\ pOps < MaxPlannerOps
    /\ \E generated \in ExternalResponses :
          LET r == PipelinePlanner_plan(pipeline_, generated) IN
          /\ pOp' = [op |-> "plan", config_file |-> "", ret |-> FALSE,
                     invoked |-> r.invoked, response |-> r.response]
          /\ pGenerated' = pGenerated + (IF r.invoked THEN 1 ELSE 0)
    /\ pPrev' = <<pipeline_, configs_, handler_>>
    /\ pOps' = pOps + 1
    /\ UNCHANGED <<pipeline_, configs_, handler_, pInitOk, builderVars, tmpVars, h5Vars>>

NextPlanner == Initialize \/ Plan

SpecPlanner == InitPlanner /\ [][NextPlanner]_vars

\* C10: plan invokes the external pipeline only if an earlier initialize succeeded;
\* while none has, plan returns a default-constructed response without calling the
\* pipeline; an initialize whose file name is empty or fails to load returns false
\* and leaves pipeline, planner configurations and parameters unchanged.
C10_PlanNeedsInitialize ==
    /\ pGenerated > 0 => pInitOk
    /\ (pOp.op = "plan" /\ ~pInitOk) =>
          /\ ~pOp.invoked
          /\ pOp.response = DefaultResponse
    /\ (pOp.op = "initialize" /\ pOp.config_file \in {"", "missing.yml"}) =>
          /\ ~pOp.ret
          /\ <<pipeline_, configs_, handler_>> = pPrev

\* a failed initialize after a successful one, and a plan that reached the pipeline
C10_Witness ==
    /\ pOp.op = "initialize" /\ pOp.config_file = "missing.yml"
    /\ pInitOk /\ pGenerated > 0
    /\ pipeline_ # <<>> /\ configs_ # <<>>

----------------------------------------------------------------------------
(* IO::HDF5Data and IO::HDF5File *)

SizeofInt == 4
SizeofDouble == 8

\* the names objects are given; getObjnameByIdx lists the children of a location in
\* this order
ObjNames == <<"a", "b">>

IsPrefix(p, q) == Len(p) <= Len(q) /\ SubSeq(q, 1, Len(p)) = p

\* the children of a location of the source container, by index
RECURSIVE ListFrom(_, _, _)
ListFrom(c, location, i) ==
    IF i > Len(ObjNames) THEN <<>>
    ELSE (IF Append(location, ObjNames[i]) \in DOMAIN c THEN <<ObjNames[i]>> ELSE <<>>)
         \o ListFrom(c, location, i + 1)

listObjects(c, location) == ListFrom(c, location, 1)

RECURSIVE Product(_)
Product(dims) == IF dims = <<>> THEN 1 ELSE Head(dims) * Product(Tail(dims))

\* what a call that flows off the end of getDataProperties can lead to: the read
\* that follows fails, or goes on with an indeterminate element size
UndefinedOutcomes ==
    {[fails |-> TRUE, size |-> 0]} \cup {[fails |-> FALSE, size |-> n] : n \in {0, 3}}

getDataProperties_int_only(type_, undefined) ==
    IF type_ = "H5T_INTEGER"
    THEN [defined |-> TRUE, read_type |-> "NATIVE_INT", size |-> SizeofInt, name |-> "integer"]
    ELSE [defined |-> FALSE, read_type |-> "", size |-> undefined.size, name |-> ""]

getDataProperties(type_, undefined) ==
    CASE type_ = "H5T_INTEGER" ->
            [defined |-> TRUE, read_type |-> "NATIVE_INT", size |-> SizeofInt, name |-> "integer"]
      [] type_ = "H5T_FLOAT" ->
            [defined |-> TRUE, read_type |-> "NATIVE_DOUBLE", size |-> SizeofDouble,
             name |-> "double"]
      [] OTHER ->
            [defined |-> FALSE, read_type |-> "", size |-> undefined.size, name |-> ""]

\* HDF5Data::HDF5Data: type class, rank and dimensions of the dataset, and the buffer
\* of element size times the product of the dimensions the dataset is read into
HDF5Data(dataset, undefined) ==
    LET properties == getDataProperties(dataset.class, undefined) IN
    [kind |-> "leaf", type_ |-> dataset.class, rank_ |-> Len(dataset.dims),
     dims_ |-> dataset.dims, properties |-> properties,
     bytes |-> properties.size * Product(dataset.dims)]

getDims(leaf) == leaf.dims_

EmptyMap == [kind |-> "map", type_ |-> "", rank_ |-> 0, dims_ |-> <<>>,
             properties |-> [defined |-> TRUE, read_type |-> "", size |-> 0, name |-> ""],
             bytes |-> 0]

\* node[key] = value, node being the mapping at path `node` of the tree: whatever
\* was stored under the key, a whole subtree included, is replaced
AssignNode(tree, node, key, value) ==
    LET p == Append(node, key) IN
    [q \in {r \in DOMAIN tree : ~IsPrefix(p, r)} \cup {p} |->
        IF q = p THEN value ELSE tree[q]]

UndefinedAt(ub, path) ==
    IF path \in DOMAIN ub THEN ub[path] ELSE [fails |-> FALSE, size |-> 0]

RECURSIVE loadData(_, _, _, _, _, _)
RECURSIVE LoadChildren(_, _, _, _, _, _)

\* the loop of the group case over listObjects(group), from its i-th element
LoadChildren(c, ub, tree, node, group, objs) ==
    IF objs = <<>> THEN tree
    ELSE LET obj == Head(objs)
             made == AssignNode(tree, node, obj, EmptyMap)
         IN LoadChildren(c, ub, loadData(c, ub, made, Append(node, obj), group, obj),
                         node, group, Tail(objs))

\* HDF5File::loadData(node, location, name); node is the path of the mapping
\* written to, location the path of the object read from
loadData(c, ub, tree, node, location, name) ==
    LET path == Append(location, name) IN
    IF c[path].kind = "group"
    THEN LoadChildren(c, ub, tree, node, path, listObjects(c, path))
    ELSE AssignNode(tree, node, name, HDF5Data(c[path], UndefinedAt(ub, path)))

RECURSIVE LoadTop(_, _, _, _)
LoadTop(c, ub, tree, objs) ==
    IF objs = <<>> THEN tree
    ELSE LoadTop(c, ub, loadData(c, ub, tree, <<>>, <<>>, Head(objs)), Tail(objs))

\* HDF5File::HDF5File: the tree after loading every object of the file's root
HDF5File(c, ub) == LoadTop(c, ub, <<>>, listObjects(c, <<>>))

----------------------------------------------------------------------------
(* Source containers *)

Group == [kind |-> "group", class |-> "", dims |-> <<>>]

DatasetKinds ==
    {[kind |-> "dataset", class |-> cl, dims |-> d] :
        cl \in {"H5T_INTEGER", "H5T_FLOAT", "H5T_STRING"}, d \in {<<2>>, <<2, 3>>}}

NameSet == {ObjNames[i] : i \in 1..Len(ObjNames)}

\* prefix-closed sets of at most n object paths of depth at most MaxDepth
RECURSIVE PathSets(_)
PathSets(n) ==
    IF n = 0 THEN {{}}
    ELSE LET prev == PathSets(n - 1) IN
         prev \cup UNION {{S \cup {Append(q, nm)} :
                              q \in {r \in S \cup {<<>>} : Len(r) < MaxDepth}, nm \in NameSet} :
                          S \in prev}

HasChild(S, p) == \E q \in S : q # p /\ IsPrefix(p, q)

\* every object with children is a group; every other one is a dataset or an empty group
ContainersOver(S) ==
    {[p \in S |-> IF HasChild(S, p) THEN Group ELSE g[p]] :
        g \in [{p \in S : ~HasChild(S, p)} -> DatasetKinds \cup {Group}]}

Containers == UNION {ContainersOver(S) : S \in PathSets(MaxObjs)}

DatasetPaths(c) == {p \in DOMAIN c : c[p].kind = "dataset"}

GroupPaths(c) == {p \in DOMAIN c : c[p].kind = "group"}

Supported(class) == class \in {"H5T_INTEGER", "H5T_FLOAT"}

UnsupportedPaths(c) == {p \in DatasetPaths(c) : ~Supported(c[p].class)}

LeafPaths(tree) == {p \in DOMAIN tree : tree[p].kind = "leaf"}

----------------------------------------------------------------------------
(* Specification of the loader: a container is given, the file object is constructed *)

InitH5 ==
    /\ container \in Containers
    /\ h5pc = "new" /\ data_ = <<>> /\ h5ub = <<>>
    /\ BuilderIdle /\ PlannerIdle /\ TmpIdle

ConstructHDF5File ==
    /\ h5pc = "new"
    /\ \E ub \in [UnsupportedPaths(container) -> UndefinedOutcomes] :
          /\ h5ub' = ub
          /\ IF \E p \in DOMAIN ub : ub[p].fails
             THEN h5pc' = "failed" /\ data_' = <<>>
             ELSE h5pc' = "loaded" /\ data_' = HDF5File(container, ub)
    /\ UNCHANGED <<container, builderVars, plannerVars, tmpVars>>

NextH5 == ConstructHDF5File

SpecH5 == InitH5 /\ [][NextH5]_vars

\* C3: for a container whose datasets are all of integer or floating-point type the
\* tree mirrors the container: one leaf per dataset, each with that dataset's
\* shape and at that dataset's path, and a nested mapping at every group's path.
C3_TreeMirrorsContainer ==
    (h5pc = "loaded" /\ UnsupportedPaths(container) = {}) =>
        /\ Cardinality(LeafPaths(data_)) = Cardinality(DatasetPaths(container))
        /\ \A p \in DatasetPaths(container) :
              /\ p \in LeafPaths(data_)
              /\ getDims(data_[p]) = container[p].dims
        /\ \A p \in GroupPaths(container) :
              p \in DOMAIN data_ /\ data_[p].kind = "map"

\* C7 as stated: a dataset of another element class loads without failure and its
\* leaf is inserted
C7_UnsupportedLoadsSilently ==
    (h5pc # "new" /\ UnsupportedPaths(container) # {}) =>
        /\ h5pc = "loaded"
        /\ Cardinality(DOMAIN container) = 1 =>
              \A p \in DOMAIN container : p \in LeafPaths(data_)

\* C7 amended: getDataProperties is defined exactly for the integer class (native
\* int, sizeof(int), "integer") and the floating-point class (native double,
\* sizeof(double), "double"), the buffer of such a leaf being element size times
\* the product of its dimensions; for any other class the result is undefined, and
\* the load either inserts a leaf of undefined buffer size or fails; a load fails
\* only if the container holds a dataset of another class.
C7_DefinedOnlyForIntAndFloat ==
    /\ h5pc = "loaded" =>
          \A p \in LeafPaths(data_) :
              LET leaf == data_[p] IN
              /\ leaf.type_ = "H5T_INTEGER" =>
                    /\ leaf.properties = [defined |-> TRUE, read_type |-> "NATIVE_INT",
                                          size |-> 4, name |-> "integer"]
                    /\ leaf.bytes = 4 * Product(leaf.dims_)
              /\ leaf.type_ = "H5T_FLOAT" =>
                    /\ leaf.properties = [defined |-> TRUE, read_type |-> "NATIVE_DOUBLE",
                                          size |-> 8, name |-> "double"]
                    /\ leaf.bytes = 8 * Product(leaf.dims_)
              /\ ~Supported(leaf.type_) => ~leaf.properties.defined
    /\ h5pc = "failed" => UnsupportedPaths(container) # {}

\* a load that completed with a floating-point leaf and a leaf of another class
\* whose element size is indeterminate
C7_Witness ==
    /\ h5pc = "loaded"
    /\ \E q, r \in LeafPaths(data_) :
          /\ data_[q].type_ = "H5T_FLOAT" /\ data_[q].bytes = 48
          /\ data_[r].type_ = "H5T_STRING" /\ data_[r].bytes = 3 * Product(data_[r].dims_)

----------------------------------------------------------------------------
(* Robot and the trajectory helper used by plan_linearly *)

\* Robot::getState: the positions of all variables of the robot
Robot_getState(state) == state

\* Robot::setState(map): the named variables take the given positions
Robot_setStateNamed(state, named) ==
    [v \in 1..VariableCount |->
        IF VariableNames[v] \in DOMAIN named THEN named[VariableNames[v]] ELSE state[v]]

\* Robot::setState(vector): all variables take the given positions
Robot_setStatePositions(state, positions) == positions

VariableIndex(name) == CHOOSE v \in 1..VariableCount : VariableNames[v] = name

\* getFinalJointPositions: variable name -> position at the last waypoint of the
\* response's trajectory; a response without a trajectory names nothing
getFinalJointPositions(response) ==
    IF response.trajectory_ = <<>> THEN <<>>
    ELSE [n \in {VariableNames[v] : v \in 1..VariableCount} |->
             response.trajectory_[1][VariableIndex(n)]]

----------------------------------------------------------------------------
(* TMPackInterface::plan_linearly *)

ExtractNextStart_no_restore(state, response) ==
    LET named_joint_positions == getFinalJointPositions(response)
        moved == Robot_setStateNamed(state, named_joint_positions)
    IN [robot |-> moved, next_start_joint_positions |-> Robot_getState(moved)]

ExtractNextStart_prefixed(state, response) ==
    [robot |-> state,
     next_start_joint_positions |->
        tmp \o SubSeq(Robot_setStateNamed(state, getFinalJointPositions(response)),
                      VirtualCount + 1, VariableCount)]

\* lines 85-89: the robot is moved to the response's final positions to read the
\* full state vector back, then put back where it was
ExtractNextStart(state, response) ==
    LET named_joint_positions == getFinalJointPositions(response)
        temp == Robot_getState(state)
        moved == Robot_setStateNamed(state, named_joint_positions)
        next == Robot_getState(moved)
    IN [robot |-> Robot_setStatePositions(moved, temp), next_start_joint_positions |-> next]

\* task plans: goal configurations over all variables of the robot
GoalConfigurations == {tmp \o <<"0.5", "0">>, <<"0", "0", "0", "0", "0", "0", "1">> \o <<"0", "0.5">>}

RECURSIVE SeqsUpTo(_, _)
SeqsUpTo(S, n) ==
    IF n = 0 THEN {<<>>}
    ELSE SeqsUpTo(S, n - 1) \cup {Append(q, x) : q \in {r \in SeqsUpTo(S, n - 1) : Len(r) = n - 1}, x \in S}

\* the responses the pipeline gives in these runs
PlanResponses ==
    {r \in ExternalResponses : r.trajectory_ = <<>> \/ r.trajectory_[1] \in GoalConfigurations}

\* joint positions of the start state the request is loaded with
StartPositions == {<<"0", "0">>, <<"0.5", "0.5">>}

Event(e, i, goal_conf) == [event |-> e, index |-> i, goal |-> goal_conf]

InitPlanLinearly ==
    /\ \E g \in GroupNames, start \in StartPositions :
          request = [MotionRequestBuilder(<<>>, g) EXCEPT
                        !.start_state = RobotStateToRobotStateMsg(tmp \o start)]
    /\ bOp = "new" /\ bPrev = request /\ bGoalCalls = FALSE /\ bLastGoal = <<>>
    /\ \E initialized \in BOOLEAN :
          /\ pipeline_ = IF initialized
                         THEN <<[planning_plugin |-> "planning_plugin",
                                 request_adapters |-> "request_adapters"]>>
                         ELSE <<>>
          /\ pInitOk = initialized
    /\ configs_ = <<>>
    /\ handler_ = [yaml |-> "", planning_plugin |-> "", request_adapters |-> <<>>, ompl |-> ""]
    /\ pOp = [op |-> "new"] /\ pPrev = <<pipeline_, configs_, handler_>>
    /\ pGenerated = 0 /\ pOps = 0
    /\ robot \in {b \o <<"0", "0">> : b \in BasePoses}
    /\ goals \in SeqsUpTo(GoalConfigurations, MaxGoals)
    /\ pc = "start" /\ idx = 0 /\ responses = <<>> /\ next_start_joint_positions = <<>>
    /\ log = <<>> /\ returned = <<>> /\ requestAtEntry = request
    /\ robotAtEntry = robot /\ robotTouched = FALSE
    /\ robotBefore = <<>> /\ handed = <<>> /\ seeds = <<>>
    /\ H5Idle

\* lines 54-68
Begin ==
    /\ pc = "start"
    /\ responses' = <<>>
    /\ next_start_joint_positions' = tmp \o getRequest(request).start_state.joint_state.position
    /\ idx' = 1
    /\ pc' = IF goals = <<>> THEN "done" ELSE "constraint"
    /\ UNCHANGED <<robot, goals, log, returned, requestAtEntry, robotAtEntry, robotTouched,
                   robotBefore, handed, seeds, builderVars, plannerVars, h5Vars>>

\* lines 78-79: the constraint helper may change the request and the robot
ConstraintCallback ==
    /\ pc = "constraint"
    /\ \/ UNCHANGED <<request, robot, robotTouched>>
       \/ /\ request' = setGoalConfiguration(request, goals[idx])
          /\ UNCHANGED <<robot, robotTouched>>
       \/ /\ robot' = Robot_setStatePositions(robot, goals[idx])
          /\ robotTouched' = TRUE
          /\ UNCHANGED request
    /\ seeds' = Append(seeds, next_start_joint_positions)
    /\ log' = Append(log, Event("constraint", idx, goals[idx]))
    /\ pc' = "scene"
    /\ UNCHANGED <<goals, idx, responses, next_start_joint_positions, returned, requestAtEntry,
                   robotAtEntry, robotBefore, handed, bOp, bPrev, bGoalCalls, bLastGoal,
                   plannerVars, h5Vars>>

SceneGraphCallback_first_goal ==
    /\ pc = "scene"
    /\ \/ UNCHANGED request
       \/ request' = setWorkspaceBounds(request, [min_corner |-> "-2", max_corner |-> "2"])
    /\ log' = Append(log, Event("scene", idx, goals[1]))
    /\ pc' = "plan"
    /\ UNCHANGED <<robot, goals, idx, responses, next_start_joint_positions, returned,
                   requestAtEntry, robotAtEntry, robotTouched, robotBefore, handed, seeds,
                   bOp, bPrev, bGoalCalls, bLastGoal, plannerVars, h5Vars>>

\* line 80: the scene-graph helper may change the request
SceneGraphCallback ==
    /\ pc = "scene"
    /\ \/ UNCHANGED request
       \/ request' = setWorkspaceBounds(request, [min_corner |-> "-2", max_corner |-> "2"])
    /\ log' = Append(log, Event("scene", idx, goals[idx]))
    /\ pc' = "plan"
    /\ UNCHANGED <<robot, goals, idx, responses, next_start_joint_positions, returned,
                   requestAtEntry, robotAtEntry, robotTouched, robotBefore, handed, seeds,
                   bOp, bPrev, bGoalCalls, bLastGoal, plannerVars, h5Vars>>

PlannerCall_drops_failed ==
    /\ pc = "plan"
    /\ \E generated \in PlanResponses :
          LET response == PipelinePlanner_plan(pipeline_, generated).response IN
          /\ responses' = IF response.error_code_ = SUCCESS
                          THEN Append(responses, response) ELSE responses
          /\ returned' = Append(returned, response)
    /\ log' = Append(log, Event("plan", idx, goals[idx]))
    /\ pc' = "extract"
    /\ UNCHANGED <<request, robot, goals, idx, next_start_joint_positions, requestAtEntry,
                   robotAtEntry, robotTouched, robotBefore, handed, seeds,
                   bOp, bPrev, bGoalCalls, bLastGoal, plannerVars, h5Vars>>

PlannerCall_stops_on_failure ==
    /\ pc = "plan"
    /\ \E generated \in PlanResponses :
          LET response == PipelinePlanner_plan(pipeline_, generated).response IN
          /\ responses' = Append(responses, response)
          /\ returned' = Append(returned, response)
          /\ pc' = IF response.error_code_ = SUCCESS THEN "extract" ELSE "done"
    /\ log' = Append(log, Event("plan", idx, goals[idx]))
    /\ UNCHANGED <<request, robot, goals, idx, next_start_joint_positions, requestAtEntry,
                   robotAtEntry, robotTouched, robotBefore, handed, seeds,
                   bOp, bPrev, bGoalCalls, bLastGoal, plannerVars, h5Vars>>

\* lines 82-83
PlannerCall ==
    /\ pc = "plan"
    /\ \E generated \in PlanResponses :
          LET response == PipelinePlanner_plan(pipeline_, generated).response IN
          /\ responses' = Append(responses, response)
          /\ returned' = Append(returned, response)
    /\ log' = Append(log, Event("plan", idx, goals[idx]))
    /\ pc' = "extract"
    /\ UNCHANGED <<request, robot, goals, idx, next_start_joint_positions, requestAtEntry,
                   robotAtEntry, robotTouched, robotBefore, handed, seeds,
                   bOp, bPrev, bGoalCalls, bLastGoal, plannerVars, h5Vars>>

\* lines 85-89
Extract ==
    /\ pc = "extract"
    /\ LET r == ExtractNextStart(robot, responses[Len(responses)]) IN
          /\ robot' = r.robot
          /\ next_start_joint_positions' = r.next_start_joint_positions
    /\ robotBefore' = Append(robotBefore, robot)
    /\ pc' = "setstart"
    /\ UNCHANGED <<goals, idx, responses, log, returned, requestAtEntry, robotAtEntry,
                   robotTouched, handed, seeds, builderVars, plannerVars, h5Vars>>

\* line 92 and the step of the loop
SetStart ==
    /\ pc = "setstart"
    /\ request' = setStartConfiguration(request, next_start_joint_positions)
    /\ handed' = Append(handed, next_start_joint_positions)
    /\ idx' = idx + 1
    /\ pc' = IF idx < Len(goals) THEN "constraint" ELSE "done"
    /\ UNCHANGED <<robot, goals, responses, next_start_joint_positions, log, returned,
                   requestAtEntry, robotAtEntry, robotTouched, robotBefore, seeds,
                   bOp, bPrev, bGoalCalls, bLastGoal, plannerVars, h5Vars>>

NextPlanLinearly ==
    \/ Begin
    \/ ConstraintCallback
    \/ SceneGraphCallback
    \/ PlannerCall
    \/ Extract
    \/ SetStart

SpecPlanLinearly == InitPlanLinearly /\ [][NextPlanLinearly]_vars

----------------------------------------------------------------------------
(* Properties of plan_linearly *)

Last(q) == q[Len(q)]

Failed(response) == response.error_code_ # SUCCESS

PlanEvents == SelectSeq(log, LAMBDA e : e.event = "plan")

RECURSIVE ExpectedLog(_, _)
ExpectedLog(gs, i) ==
    IF i > Len(gs) THEN <<>>
    ELSE <<Event("constraint", i, gs[i]), Event("scene", i, gs[i]), Event("plan", i, gs[i])>>
         \o ExpectedLog(gs, i + 1)

\* the robot state with the variables of the response's final waypoint written over it
Overwritten(state, response) ==
    [v \in 1..VariableCount |->
        IF response.trajectory_ # <<>> THEN response.trajectory_[1][v] ELSE state[v]]

\* the start state of a request whose group was set from the front of a vector
StartFrom(req, joints) ==
    LET jmg == JointModelGroups[req.group_name]
        state == [v \in 1..VariableCount |->
                     IF \E k \in 1..Len(jmg) : jmg[k] = v
                     THEN joints[CHOOSE k \in 1..Len(jmg) : jmg[k] = v]
                     ELSE DefaultValues[v]]
    IN [joint_state |-> [name |-> JointVariables,
                         position |-> SubSeq(state, VirtualCount + 1, VariableCount)],
        multi_dof_joint_state |-> SubSeq(state, 1, VirtualCount)]

\* C1 as stated: the start configuration of the request passed to planner call N+1
\* is the fixed 7-element prefix followed by the final joint positions of response N
C1_StartIsPrefixThenFinalJoints ==
    (pc = "plan" /\ idx >= 2 /\ returned[idx - 1].trajectory_ # <<>>) =>
        request.start_state.multi_dof_joint_state \o request.start_state.joint_state.position
            = tmp \o SubSeq(returned[idx - 1].trajectory_[1], VirtualCount + 1, VariableCount)

\* C1 amended: the vector passed to setStartConfiguration after planner call N is the
\* robot's full state vector with every variable of response N's final waypoint
\* written over it (the robot's own state when the response has no trajectory); the
\* request of call N+1 starts from the default state with its group set from the
\* front of that vector; the fixed prefix is prepended only to the first seed, which
\* goes to the first constraint callback, and every later seed is the vector passed
\* to setStartConfiguration before it.
C1_StartIsRobotStateAfterResponse ==
    /\ \A n \in 1..Len(handed) : handed[n] = Overwritten(robotBefore[n], returned[n])
    /\ \A n \in 1..Len(seeds) :
          seeds[n] = IF n = 1
                     THEN tmp \o requestAtEntry.start_state.joint_state.position
                     ELSE handed[n - 1]
    /\ (pc = "plan" /\ idx >= 2) => request.start_state = StartFrom(request, handed[idx - 1])

\* planner call 2 is about to be made from a response whose final waypoint does not
\* have the fixed prefix as its virtual-joint values
C1_Witness ==
    /\ pc = "plan" /\ idx = 2
    /\ returned[1].trajectory_ # <<>>
    /\ SubSeq(handed[1], 1, VirtualCount) # tmp
    /\ request.group_name = "body"

\* C2: the result list has one response per goal, the i-th being the one the planner
\* call made for the i-th goal returned, for every goal list, the empty one and
\* those with failed sub-plans included.
C2_OneResponsePerGoal ==
    /\ responses = returned
    /\ Len(PlanEvents) = Len(responses)
    /\ \A i \in 1..Len(PlanEvents) : PlanEvents[i].index = i /\ PlanEvents[i].goal = goals[i]
    /\ pc = "done" => Len(responses) = Len(goals)

\* two goals planned, the first sub-plan failed and the second succeeded
C2_Witness ==
    /\ pc = "done" /\ Len(goals) = 2 /\ Len(responses) = 2
    /\ Failed(responses[1]) /\ ~Failed(responses[2])

\* C4: a failed response is appended unchanged, the planner is still called for
\* every remaining goal, and the next start configuration is derived from the
\* failed response as it is from a successful one.
C4_FailureDoesNotStopLoop ==
    \A i \in 1..Len(returned) :
        Failed(returned[i]) =>
            /\ i <= Len(responses) /\ responses[i] = returned[i]
            /\ pc \notin {"plan", "extract", "setstart"} =>
                  Len(PlanEvents) = (IF pc = "done" THEN Len(goals) ELSE idx - 1)
            /\ pc = "done" => Len(handed) = Len(goals)
            /\ i <= Len(handed) => handed[i] = Overwritten(robotBefore[i], returned[i])

\* the first of two sub-plans failed with a trajectory, the robot state was read
\* from it, and the second goal was planned
C4_Witness ==
    /\ pc = "done" /\ Len(goals) = 2 /\ Len(returned) = 2
    /\ Failed(returned[1]) /\ returned[1].trajectory_ # <<>>
    /\ handed[1] # robotBefore[1]
    /\ Failed(returned[2]) /\ returned[2].trajectory_ = <<>>

\* C5: per goal, in list order: the constraint helper's callback, the scene-graph
\* helper's callback, then one planner call, the callbacks receiving that goal; over
\* n goals each of the three happens n times.
C5_CallbacksThenPlanPerGoal ==
    /\ IsPrefix(log, ExpectedLog(goals, 1))
    /\ pc = "done" => log = ExpectedLog(goals, 1)
    /\ pc \in {"constraint", "scene", "plan"} => idx = Len(PlanEvents) + 1

\* two different goals planned
C5_Witness ==
    /\ pc = "done" /\ Len(goals) = 2 /\ goals[1] # goals[2] /\ Len(log) = 6

\* C6: every vector handed to setStartConfiguration or to the constraint helper has
\* as many entries as the request's joint group has variables
C6_LengthMatchesGroup ==
    /\ \A n \in 1..Len(handed) : Len(handed[n]) = Len(jmg_(request))
    /\ \A n \in 1..Len(seeds) : Len(seeds[n]) = Len(jmg_(request))

\* C8: after the extraction of an iteration the robot is in the state it had just
\* before it, and when no callback changed the robot plan_linearly returns with the
\* robot state it was called with.
C8_RobotStateRestored ==
    /\ pc = "setstart" => robot = Last(robotBefore)
    /\ (pc = "done" /\ ~robotTouched) => robot = robotAtEntry

\* two goals planned without a callback touching the robot, the responses' final
\* waypoints (one of a failed sub-plan) differing from the robot's state
C8_Witness ==
    /\ pc = "done" /\ ~robotTouched /\ Len(goals) = 2
    /\ handed[1] # robotAtEntry /\ handed[2] # robotAtEntry
    /\ Failed(returned[1]) /\ ~Failed(returned[2])

====
